---- MODULE Spec2Model ----
(***************************************************************************)
(* Training controller of src/utils.py: the evaluators (evaluate,          *)
(* evaluate_unet), the two early-stopping policies (EarlyStopping,         *)
(* EarlyStoppingForUnet) and the trainers (train, train_unet,              *)
(* train_unet_with_scheduler).                                             *)
(*                                                                         *)
(* Numbers.  Losses and pixel counts are integers.  A quotient computed by *)
(* the code (a mean loss, an accuracy, a Dice value) is kept as the exact  *)
(* fraction <<numerator, denominator>> in lowest terms, and compared by    *)
(* cross-multiplication; float("inf") is the fraction <<1, 0>>.            *)
(***************************************************************************)
EXTENDS Integers, Sequences, FiniteSets, TLC

----------------------------------------------------------------------------
(* Bounds of the model *)

\* pixels of one batch (numel of the prediction map)
NPix == 2
\* labels of a pixel are 0..MaxLabel
MaxLabel == 2
\* a data loader holds at most MaxBatches batches
MaxBatches == 2
\* a batch loss is one of 1..MaxLoss
MaxLoss == 2
\* patience is one of 1..MaxPatience
MaxPatience == 2
\* a policy used on its own is called at most MaxCalls times
MaxCalls == 5
\* epochs is one of 0..MaxEpochs
MaxEpochs == 3
\* log_every is one of 1..MaxLogEvery
MaxLogEvery == 2

----------------------------------------------------------------------------
(* Arithmetic *)

Abs(x) == IF x < 0 THEN 0 - x ELSE x

RECURSIVE GCD(_, _)
GCD(a, b) == IF b = 0 THEN a ELSE GCD(b, a % b)

\* the float n / d for d > 0, as a fraction in lowest terms
Quot(n, d) ==
    IF n = 0 THEN <<0, 1>>
    ELSE LET g == GCD(Abs(n), d) IN <<n \div g, d \div g>>

\* an integer score as a fraction
Num(n) == <<n, 1>>

\* float("inf")
Inf == <<1, 0>>

\* a < b on fractions (denominators >= 0, so Inf is above every finite value
\* and Inf < Inf, Inf > Inf are both false, as for floats)
Less(a, b) == a[1] * b[2] < b[1] * a[2]

Greater(a, b) == Less(b, a)

RECURSIVE SumTo(_, _)
\* f[1] + ... + f[n]
SumTo(f, n) == IF n = 0 THEN 0 ELSE f[n] + SumTo(f, n - 1)

\* tensor.sum() of a map over the pixels of a batch
TensorSum(f) == SumTo(f, NPix)

----------------------------------------------------------------------------
(* Data *)

\* a label map: one label per pixel (predictions = argmax of the scores, and
\* the target y)
LabelMaps == [1..NPix -> 0..MaxLabel]

LossValues == 1..MaxLoss

\* a batch of the segmentation evaluator, seen through what the code reads of
\* it: the arg-max predictions of the model on x, the target y, and the value
\* of criterion(scores, y)
UnetBatches == [pred : LabelMaps, y : LabelMaps, loss : LossValues]

\* a batch of the classification evaluator: only criterion(output, y) is read
NoMap == [p \in 1..NPix |-> 0]

PlainBatches == [pred : {NoMap}, y : {NoMap}, loss : LossValues]

\* the value of the local `correct` of evaluate_unet before its first
\* assignment in the loop body (the name is unbound)
Unbound == 0 - 1

----------------------------------------------------------------------------
(* State *)

VARIABLES
    ev,      \* the running evaluator call: its position, its locals, its result
    model,   \* the model: its mode and its parameters
    es,      \* the early-stopping policy object
    calls,   \* the scores the policy object was called with, in order
    tr,      \* the running trainer call: its arguments, its position, its locals
    env      \* the optimizer, the scheduler and the logging callback: what
             \* they were asked to do so far

vars == <<ev, model, es, calls, tr, env>>

----------------------------------------------------------------------------
(* Evaluators: evaluate and evaluate_unet *)

\* (predictions == y).sum()
CountEqual(pred, y) == TensorSum([p \in 1..NPix |-> IF pred[p] = y[p] THEN 1 ELSE 0])

\* (predictions * y).sum()
SumProduct(pred, y) == TensorSum([p \in 1..NPix |-> pred[p] * y[p]])

\* (predictions + y).sum()
SumPlus(pred, y) == TensorSum([p \in 1..NPix |-> pred[p] + y[p]])

\* (2 * intersection) / (denom + 1e-8), with two2 = 2 * intersection.  The
\* operands are integer tensors, so denom + 1e-8 is a float32 tensor: for
\* denom >= 1 the term 1e-8 is below half a unit in the last place and the sum is
\* denom itself; for denom = 0 the divisor is 1e-8 and the quotient 0 / 1e-8 = 0.
DiceQuot(two2, den) == IF den = 0 THEN <<0, 1>> ELSE Quot(two2, den)

\* the locals of evaluate_unet before the loop: lines 33-38 (correct is not
\* assigned there)
EvaluateUnetLocals ==
    [intersection |-> 0, denom |-> 0, total |-> 0, correct |-> Unbound,
     dice |-> <<0, 1>>, total_loss |-> 0]

\* the locals of evaluate before the loop: line 23 (the other fields are not
\* locals of evaluate and stay as they are here)
EvaluateLocals == EvaluateUnetLocals

\* one iteration of the loop of evaluate_unet on batch b, from locals l
EvaluateUnetBody(l, b) ==
    LET r == [l EXCEPT !.correct = 0, !.intersection = 0, !.denom = 0, !.total = 0]
        i == r.intersection + SumProduct(b.pred, b.y)
        d == r.denom + SumPlus(b.pred, b.y)
    IN  [r EXCEPT !.total_loss = l.total_loss + b.loss,
                  !.correct = r.correct + CountEqual(b.pred, b.y),
                  !.total = r.total + NPix,
                  !.intersection = i,
                  !.denom = d,
                  !.dice = DiceQuot(2 * i, d)]

\* one iteration of the loop of evaluate on batch b
EvaluateBody(l, b) == [l EXCEPT !.total_loss = l.total_loss + b.loss]

\* the value returned by evaluate_unet over a loader of n >= 1 batches
EvaluateUnetResult(l, n) ==
    [loss |-> Quot(l.total_loss, n), acc |-> Quot(l.correct, l.total), dice |-> l.dice]

\* the value returned by evaluate over a loader of n >= 1 batches (acc and
\* dice are not part of it)
EvaluateResult(l, n) ==
    [loss |-> Quot(l.total_loss, n), acc |-> <<0, 1>>, dice |-> <<0, 1>>]

NoResult == [loss |-> <<0, 1>>, acc |-> <<0, 1>>, dice |-> <<0, 1>>]

EvIdle ==
    [pc |-> "idle", fn |-> "none", len |-> 0, seen |-> <<>>,
     l |-> EvaluateUnetLocals, ret |-> NoResult]

\* entry of evaluate(model, criterion, data_loader, device) with
\* len(data_loader) = n: model.eval() and the locals
EnterEvaluate(n) ==
    /\ ev' = [pc |-> "loop", fn |-> "evaluate", len |-> n, seen |-> <<>>,
              l |-> EvaluateLocals, ret |-> NoResult]
    /\ model' = [model EXCEPT !.mode = "eval"]

\* evaluate_unet with an update of the parameters left in the pass
EnterEvaluateUnetUpdates(n) ==
    /\ ev' = [pc |-> "loop", fn |-> "evaluate_unet", len |-> n, seen |-> <<>>,
              l |-> EvaluateUnetLocals, ret |-> NoResult]
    /\ model' = [model EXCEPT !.mode = "eval", !.params = @ + 1]

\* entry of evaluate_unet(model, criterion, data_loader, device)
EnterEvaluateUnet(n) ==
    /\ ev' = [pc |-> "loop", fn |-> "evaluate_unet", len |-> n, seen |-> <<>>,
              l |-> EvaluateUnetLocals, ret |-> NoResult]
    /\ model' = [model EXCEPT !.mode = "eval"]

\* the next batch of the loop of evaluate, drawn from the batches B
EvaluateBatch(B) ==
    /\ ev.pc = "loop" /\ ev.fn = "evaluate"
    /\ Len(ev.seen) < ev.len
    /\ \E b \in B :
          ev' = [ev EXCEPT !.seen = Append(@, b), !.l = EvaluateBody(@, b)]
    /\ UNCHANGED <<model, es, calls, tr, env>>

\* the next batch of the loop of evaluate_unet, drawn from the batches B
EvaluateUnetBatch(B) ==
    /\ ev.pc = "loop" /\ ev.fn = "evaluate_unet"
    /\ Len(ev.seen) < ev.len
    /\ \E b \in B :
          ev' = [ev EXCEPT !.seen = Append(@, b), !.l = EvaluateUnetBody(@, b)]
    /\ UNCHANGED <<model, es, calls, tr, env>>

\* the return statement after the last batch (line 30, line 65)
EvaluateReturn ==
    /\ ev.pc = "loop" /\ ev.len >= 1
    /\ Len(ev.seen) = ev.len
    /\ ev' = [ev EXCEPT !.pc = "done",
                        !.ret = IF ev.fn = "evaluate"
                                THEN EvaluateResult(ev.l, ev.len)
                                ELSE EvaluateUnetResult(ev.l, ev.len)]
    /\ UNCHANGED <<model, es, calls, tr, env>>

\* an empty loader: total_loss / len(data_loader) divides by zero and the
\* exception leaves the evaluator
EvaluateRaise ==
    /\ ev.pc = "loop" /\ ev.len = 0
    /\ ev' = [ev EXCEPT !.pc = "raised"]
    /\ UNCHANGED <<model, es, calls, tr, env>>

----------------------------------------------------------------------------
(* Early-stopping policies: EarlyStopping and EarlyStoppingForUnet *)

\* EarlyStopping.__init__(patience)
EarlyStoppingInit(patience) ==
    [cls |-> "EarlyStopping", patience |-> patience, counter |-> 0,
     best_score |-> Inf, val_loss_min |-> Inf, early_stop |-> FALSE]

\* EarlyStoppingForUnet.__init__ with the best score started at the largest
\* Dice value, 1.0
EarlyStoppingForUnetInitOne(patience) ==
    [cls |-> "EarlyStoppingForUnet", patience |-> patience, counter |-> 0,
     best_score |-> <<1, 1>>, val_loss_min |-> Inf, early_stop |-> FALSE]

\* EarlyStoppingForUnet.__init__(patience)
EarlyStoppingForUnetInit(patience) ==
    [cls |-> "EarlyStoppingForUnet", patience |-> patience, counter |-> 0,
     best_score |-> <<0, 1>>, val_loss_min |-> Inf, early_stop |-> FALSE]

\* EarlyStopping.__call__ with >= in place of >: a score equal to the best
\* one counts as a non-improvement
EarlyStoppingCallGeq(self, val_loss) ==
    IF ~Less(val_loss, self.best_score)
    THEN [self EXCEPT !.counter = self.counter + 1,
                      !.early_stop = IF self.counter + 1 >= self.patience
                                     THEN TRUE ELSE self.early_stop]
    ELSE [self EXCEPT !.best_score = val_loss, !.counter = 0]

\* EarlyStopping.__call__ with the flag cleared on an improvement
EarlyStoppingCallClears(self, val_loss) ==
    IF Greater(val_loss, self.best_score)
    THEN [self EXCEPT !.counter = self.counter + 1,
                      !.early_stop = IF self.counter + 1 >= self.patience
                                     THEN TRUE ELSE self.early_stop]
    ELSE [self EXCEPT !.best_score = val_loss, !.counter = 0, !.early_stop = FALSE]

\* EarlyStopping.__call__ with counter > patience in place of >=
EarlyStoppingCallLate(self, val_loss) ==
    IF Greater(val_loss, self.best_score)
    THEN [self EXCEPT !.counter = self.counter + 1,
                      !.early_stop = IF self.counter + 1 > self.patience
                                     THEN TRUE ELSE self.early_stop]
    ELSE [self EXCEPT !.best_score = val_loss, !.counter = 0]

\* EarlyStopping.__call__ keeping the latest score as the best one
EarlyStoppingCallLatest(self, val_loss) ==
    IF Greater(val_loss, self.best_score)
    THEN [self EXCEPT !.best_score = val_loss,
                      !.counter = self.counter + 1,
                      !.early_stop = IF self.counter + 1 >= self.patience
                                     THEN TRUE ELSE self.early_stop]
    ELSE [self EXCEPT !.best_score = val_loss, !.counter = 0]

\* EarlyStopping.__call__(val_loss): the object after the call
EarlyStoppingCall(self, val_loss) ==
    IF Greater(val_loss, self.best_score)
    THEN [self EXCEPT !.counter = self.counter + 1,
                      !.early_stop = IF self.counter + 1 >= self.patience
                                     THEN TRUE ELSE self.early_stop]
    ELSE [self EXCEPT !.best_score = val_loss, !.counter = 0]

\* EarlyStoppingForUnet.__call__ with <= in place of <
EarlyStoppingForUnetCallLeq(self, dice) ==
    IF ~Greater(dice, self.best_score)
    THEN [self EXCEPT !.counter = self.counter + 1,
                      !.early_stop = IF self.counter + 1 >= self.patience
                                     THEN TRUE ELSE self.early_stop]
    ELSE [self EXCEPT !.best_score = dice, !.counter = 0]

\* EarlyStoppingForUnet.__call__ with counter > patience in place of >=
EarlyStoppingForUnetCallLate(self, dice) ==
    IF Less(dice, self.best_score)
    THEN [self EXCEPT !.counter = self.counter + 1,
                      !.early_stop = IF self.counter + 1 > self.patience
                                     THEN TRUE ELSE self.early_stop]
    ELSE [self EXCEPT !.best_score = dice, !.counter = 0]

\* EarlyStoppingForUnet.__call__ with the counter kept on an improvement
EarlyStoppingForUnetCallKeeps(self, dice) ==
    IF Less(dice, self.best_score)
    THEN [self EXCEPT !.counter = self.counter + 1,
                      !.early_stop = IF self.counter + 1 >= self.patience
                                     THEN TRUE ELSE self.early_stop]
    ELSE [self EXCEPT !.best_score = dice]

\* EarlyStoppingForUnet.__call__(dice): the object after the call
EarlyStoppingForUnetCall(self, dice) ==
    IF Less(dice, self.best_score)
    THEN [self EXCEPT !.counter = self.counter + 1,
                      !.early_stop = IF self.counter + 1 >= self.patience
                                     THEN TRUE ELSE self.early_stop]
    ELSE [self EXCEPT !.best_score = dice, !.counter = 0]

\* early_stopping(score) on the policy object, whichever its class
PolicyCall(self, score) ==
    IF self.cls = "EarlyStopping"
    THEN EarlyStoppingCall(self, score)
    ELSE EarlyStoppingForUnetCall(self, score)

\* no policy object (do_early_stopping is false: the name is never bound)
NoPolicy ==
    [cls |-> "none", patience |-> 0, counter |-> 0, best_score |-> <<0, 1>>,
     val_loss_min |-> Inf, early_stop |-> FALSE]

\* scores fed to a policy used on its own: losses 3, 4, 5 and Dice values
\* -0.1, 0, 0.1, 0.3 (a Dice value below 0 is not one evaluate_unet returns)
LossScores == {Num(3), Num(4), Num(5)}

DiceScores == {<<0 - 1, 10>>, <<0, 1>>, <<1, 10>>, <<3, 10>>}

\* a call of an EarlyStopping object made by its owner
CallEarlyStopping ==
    /\ es.cls = "EarlyStopping"
    /\ Len(calls) < MaxCalls
    /\ \E s \in LossScores :
          /\ es' = EarlyStoppingCall(es, s)
          /\ calls' = Append(calls, s)
    /\ UNCHANGED <<ev, model, tr, env>>

\* a call of an EarlyStoppingForUnet object made by its owner
CallEarlyStoppingForUnet ==
    /\ es.cls = "EarlyStoppingForUnet"
    /\ Len(calls) < MaxCalls
    /\ \E s \in DiceScores :
          /\ es' = EarlyStoppingForUnetCall(es, s)
          /\ calls' = Append(calls, s)
    /\ UNCHANGED <<ev, model, tr, env>>

----------------------------------------------------------------------------
(* Trainers: train, train_unet, train_unet_with_scheduler *)

Trainers == {"train", "train_unet", "train_unet_with_scheduler"}

\* the collaborators before a run
\* (trace lists, in the order of the source, the steps the trainer has taken)
\* (batch_losses lists the values batch_loss.item() of the current epoch)
Env0 ==
    [zero_grads |-> 0, backwards |-> 0, steps |-> 0, notified |-> <<>>, logs |-> <<>>,
     trace |-> <<>>, batch_losses |-> <<>>]

\* the locals of a trainer before its epoch loop (lines 154-159, 235-243,
\* 336-344); the arguments are filled in by the caller
TrainerLocals ==
    [pc |-> "head", epoch |-> 0, b |-> 0, train_loss |-> <<0, 1>>,
     train_correct_num |-> 0, train_total |-> 0,
     epoch_train_errors |-> <<>>, epoch_val_errors |-> <<>>,
     epoch_dice_values |-> <<>>, epoc_acc |-> <<>>]

TrIdle ==
    [a \in {"fn", "do_early_stopping", "patience", "epochs", "log_fn", "log_every",
            "scheduler", "n_train", "n_val"} |-> 0] @@ [TrainerLocals EXCEPT !.pc = "idle"]

\* the policy object a trainer builds (lines 156-159, 240-243, 341-344)
TrainerPolicy(fn, do_early_stopping, patience) ==
    IF ~do_early_stopping THEN NoPolicy
    ELSE IF fn = "train" THEN EarlyStoppingInit(patience)
    ELSE EarlyStoppingForUnetInit(patience)

IsUnet(fn) == fn # "train"

\* the batches a trainer run draws from.  The label maps are all background
\* (NoMap), foreground on the first pixel only, or all foreground; the target
\* of a segmentation batch is all foreground, so the Dice value of a validation
\* batch is 0, 2 / (1 + NPix) or 1, and the same Dice value comes with either
\* loss
Ones == [p \in 1..NPix |-> 1]

FirstOnly == [p \in 1..NPix |-> IF p = 1 THEN 1 ELSE 0]

TrainerLosses == {1, 2}

UnetTrainBatches == [pred : {FirstOnly}, y : {Ones}, loss : TrainerLosses]

UnetValBatches ==
    {[pred |-> NoMap, y |-> Ones, loss |-> 2],
     [pred |-> FirstOnly, y |-> Ones, loss |-> 1],
     [pred |-> Ones, y |-> Ones, loss |-> 1],
     [pred |-> Ones, y |-> Ones, loss |-> 2]}

PlainTrainerBatches == [pred : {NoMap}, y : {NoMap}, loss : TrainerLosses]

\* the epoch loop with model.train() called once, before the loop
TrainEpochHeadTrainOnce ==
    /\ tr.pc = "head"
    /\ IF tr.epoch < tr.epochs
       THEN /\ tr' = [tr EXCEPT !.pc = "batches", !.b = 0, !.train_loss = <<0, 1>>,
                                !.train_correct_num = 0, !.train_total = 0]
            /\ model' = [model EXCEPT !.mode = IF tr.epoch = 0 THEN "train" ELSE @]
            /\ env' = [env EXCEPT !.trace = Append(@, "train"), !.batch_losses = <<>>]
       ELSE /\ tr' = [tr EXCEPT !.pc = "returned"]
            /\ UNCHANGED <<model, env>>
    /\ UNCHANGED <<ev, es, calls>>

\* the epoch loop with the loss accumulator set up once, before the loop
TrainEpochHeadKeepsLoss ==
    /\ tr.pc = "head"
    /\ IF tr.epoch < tr.epochs
       THEN /\ tr' = [tr EXCEPT !.pc = "batches", !.b = 0,
                                !.train_correct_num = 0, !.train_total = 0]
            /\ model' = [model EXCEPT !.mode = "train"]
            /\ env' = [env EXCEPT !.trace = Append(@, "train"), !.batch_losses = <<>>]
       ELSE /\ tr' = [tr EXCEPT !.pc = "returned"]
            /\ UNCHANGED <<model, env>>
    /\ UNCHANGED <<ev, es, calls>>

\* top of the epoch loop: the next epoch starts (model.train() and the epoch's
\* accumulators), or range(epochs) is used up and the trainer returns
TrainEpochHead ==
    /\ tr.pc = "head"
    /\ IF tr.epoch < tr.epochs
       THEN /\ tr' = [tr EXCEPT !.pc = "batches", !.b = 0, !.train_loss = <<0, 1>>,
                                !.train_correct_num = 0, !.train_total = 0]
            /\ model' = [model EXCEPT !.mode = "train"]
            /\ env' = [env EXCEPT !.trace = Append(@, "train"), !.batch_losses = <<>>]
       ELSE /\ tr' = [tr EXCEPT !.pc = "returned"]
            /\ UNCHANGED <<model, env>>
    /\ UNCHANGED <<ev, es, calls>>

\* the locals of the trainer after one training batch b
TrainBatchLocals(t, b) ==
    [t EXCEPT !.b = t.b + 1,
              !.train_loss = <<t.train_loss[1] + b.loss, 1>>,
              !.train_correct_num =
                  IF IsUnet(t.fn) THEN @ + CountEqual(b.pred, b.y) ELSE @,
              !.train_total = IF IsUnet(t.fn) THEN @ + NPix ELSE @]

\* the notification made without the test scheduler is not None
NotifiesUnguarded(t) == t.fn = "train_unet_with_scheduler"

\* the trainer notifies a scheduler (lines 364-365)
Notifies(t) == t.fn = "train_unet_with_scheduler" /\ t.scheduler

\* the steps of one training batch, in the order of the source: train zeroes
\* the gradients before the forward pass (lines 168-176), the segmentation
\* trainers after it (lines 256-262, 357-365)
BatchSteps(t) ==
    (IF t.fn = "train"
     THEN <<"zero_grad", "forward", "backward", "step">>
     ELSE <<"forward", "zero_grad", "backward", "step">>)
    \o (IF Notifies(t) THEN <<"notify">> ELSE <<>>)

\* the collaborators after one training batch b: gradient reset, backward
\* pass, optimizer step and, in train_unet_with_scheduler with a scheduler,
\* scheduler.step(batch_loss.item())
TrainBatchEnv(t, e, b) ==
    [e EXCEPT !.zero_grads = @ + 1, !.backwards = @ + 1, !.steps = @ + 1,
              !.notified = IF Notifies(t) THEN Append(@, b.loss) ELSE @,
              !.trace = @ \o BatchSteps(t),
              !.batch_losses = Append(@, b.loss)]

\* one training batch (lines 164-178, 252-272, 353-375)
TrainBatch ==
    /\ tr.pc = "batches" /\ tr.b < tr.n_train
    /\ \E b \in (IF IsUnet(tr.fn) THEN UnetTrainBatches ELSE PlainTrainerBatches) :
          /\ tr' = TrainBatchLocals(tr, b)
          /\ env' = TrainBatchEnv(tr, env, b)
          /\ model' = [model EXCEPT !.params = @ + 1]
    /\ UNCHANGED <<ev, es, calls>>

\* the locals of the trainer after the batch loop: the mean training loss and
\* its append, and in the segmentation trainers the training accuracy
TrainMeanLocals(t) ==
    LET mean == Quot(t.train_loss[1], t.n_train) IN
    [t EXCEPT !.pc = "eval", !.train_loss = mean,
              !.epoch_train_errors = Append(@, mean),
              !.epoc_acc = IF IsUnet(t.fn)
                           THEN Append(@, Quot(t.train_correct_num, t.train_total))
                           ELSE @]

\* after the last batch of the epoch (lines 180-184, 274-282, 377-385): the
\* mean, the appends, and the call of the evaluator on the validation loader
TrainEpochMean ==
    /\ tr.pc = "batches" /\ tr.b = tr.n_train /\ tr.n_train >= 1
    /\ tr' = TrainMeanLocals(tr)
    /\ IF IsUnet(tr.fn) THEN EnterEvaluateUnet(tr.n_val) ELSE EnterEvaluate(tr.n_val)
    /\ env' = [env EXCEPT !.trace = @ \o <<"append_train", "evaluate">>]
    /\ UNCHANGED <<es, calls>>

\* an empty training loader: train_loss /= len(train_loader) divides by zero
TrainRaise ==
    /\ tr.pc = "batches" /\ tr.n_train = 0
    /\ tr' = [tr EXCEPT !.pc = "raised"]
    /\ UNCHANGED <<ev, model, es, calls, env>>

\* the exception of the evaluator leaves the trainer
TrainEvalRaised ==
    /\ tr.pc = "eval" /\ ev.pc = "raised"
    /\ tr' = [tr EXCEPT !.pc = "raised"]
    /\ UNCHANGED <<ev, model, es, calls, env>>

\* every trainer handing the validation loss to its policy
PolicyScoreLoss(t, r) == r.loss

\* the score the trainer hands to its policy
PolicyScore(t, r) == IF IsUnet(t.fn) THEN r.dice ELSE r.loss

\* the policy object built anew in every epoch, then called
PolicyAfterEpochFresh(t, e, r) ==
    IF t.do_early_stopping
    THEN PolicyCall(TrainerPolicy(t.fn, TRUE, t.patience), PolicyScore(t, r))
    ELSE e

\* the policy after the epoch's call, if there is a policy
PolicyAfterEpoch(t, e, r) ==
    IF t.do_early_stopping THEN PolicyCall(e, PolicyScore(t, r)) ELSE e

\* the logging test on the epoch index in place of the epoch number
LogDueOnIndex(t) == t.log_fn /\ t.epoch % t.log_every = 0

\* the epoch is one the logging callback is called for
LogDue(t) == t.log_fn /\ (t.epoch + 1) % t.log_every = 0

\* the arguments of the logging callback
LogRecord(t, r) ==
    [epoch |-> t.epoch, train_loss |-> t.train_loss, val_loss |-> r.loss,
     accuracy |-> r.acc, dice |-> r.dice]

\* an epoch loop without the stop check
BreaksNever(t, e) == FALSE

\* the break of the epoch loop is taken
Breaks(t, e) == t.do_early_stopping /\ e.early_stop

\* the rest of the epoch with the logging callback called before the policy
AfterStepsLogFirst(t) ==
    <<"append_val">>
    \o (IF LogDue(t) THEN <<"log">> ELSE <<>>)
    \o (IF t.do_early_stopping THEN <<"policy">> ELSE <<>>)
    \o <<"check">>

\* the steps of the epoch after the evaluator returned, in the order of the
\* source: appends, policy call, logging callback, stop check
AfterSteps(t) ==
    <<"append_val">>
    \o (IF t.do_early_stopping THEN <<"policy">> ELSE <<>>)
    \o (IF LogDue(t) THEN <<"log">> ELSE <<>>)
    \o <<"check">>

\* the collaborators after the rest of the epoch: the logging callback is
\* called when due
TrainAfterEnv(t, e, r) ==
    [e EXCEPT !.logs = IF LogDue(t) THEN Append(@, LogRecord(t, r)) ELSE @,
              !.trace = @ \o AfterSteps(t)]

\* the trainer with the stop check moved before the append of the Dice value
TrainAfterLocalsBreakFirst(t, e, r) ==
    [t EXCEPT !.epoch_val_errors = Append(@, r.loss),
              !.epoch_dice_values =
                  IF IsUnet(t.fn) /\ ~Breaks(t, e) THEN Append(@, r.dice) ELSE @,
              !.pc = IF Breaks(t, e) THEN "returned" ELSE "head",
              !.epoch = IF Breaks(t, e) THEN @ ELSE @ + 1]

\* the locals of the trainer after the evaluator returned r: the appends of
\* the validation results, then break (and return) or the next epoch; e is the
\* policy after the epoch's call
TrainAfterLocals(t, e, r) ==
    [t EXCEPT !.epoch_val_errors = Append(@, r.loss),
              !.epoch_dice_values = IF IsUnet(t.fn) THEN Append(@, r.dice) ELSE @,
              !.pc = IF Breaks(t, e) THEN "returned" ELSE "head",
              !.epoch = IF Breaks(t, e) THEN @ ELSE @ + 1]

\* the rest of the epoch once the evaluator has returned (lines 182-198,
\* 280-299, 383-402): appends, policy call, logging, stop check
TrainAfterEval ==
    /\ tr.pc = "eval" /\ ev.pc = "done"
    /\ LET r == ev.ret
           e == PolicyAfterEpoch(tr, es, r)
       IN  /\ es' = e
           /\ calls' = IF tr.do_early_stopping
                       THEN Append(calls, PolicyScore(tr, r)) ELSE calls
           /\ env' = TrainAfterEnv(tr, env, r)
           /\ tr' = TrainAfterLocals(tr, e, r)
    /\ ev' = EvIdle
    /\ UNCHANGED model

(* Specifications *)

\* a model as a caller hands it over: in either mode, parameters at version 0
Models == [mode : {"train", "eval"}, params : {0}]

\* SpecEval: one call of an evaluator over a loader of 0..MaxBatches batches
InitEval ==
    /\ model \in Models
    /\ \E n \in 0..MaxBatches, f \in {"evaluate", "evaluate_unet"} :
          ev = [EvIdle EXCEPT !.fn = f, !.len = n]
    /\ es = NoPolicy
    /\ calls = <<>>
    /\ tr = TrIdle
    /\ env = Env0

\* the call itself
CallEvaluator ==
    /\ ev.pc = "idle" /\ tr.pc = "idle"
    /\ IF ev.fn = "evaluate" THEN EnterEvaluate(ev.len) ELSE EnterEvaluateUnet(ev.len)
    /\ UNCHANGED <<es, calls, tr, env>>

NextEval ==
    \/ CallEvaluator
    \/ EvaluateBatch(PlainBatches)
    \/ EvaluateUnetBatch(UnetBatches)
    \/ EvaluateReturn
    \/ EvaluateRaise

SpecEval == InitEval /\ [][NextEval]_vars

\* SpecPolicy: a fresh policy object of either class, called up to MaxCalls times
InitPolicy ==
    /\ model \in Models
    /\ ev = EvIdle
    /\ \E p \in 1..MaxPatience :
          es \in {EarlyStoppingInit(p), EarlyStoppingForUnetInit(p)}
    /\ calls = <<>>
    /\ tr = TrIdle
    /\ env = Env0

NextPolicy ==
    \/ CallEarlyStopping
    \/ CallEarlyStoppingForUnet

SpecPolicy == InitPolicy /\ [][NextPolicy]_vars

\* SpecTrain: one run of a trainer over loaders of at most one batch, for
\* every trainer, every epochs in 0..MaxEpochs, with and without early
\* stopping, logging and scheduler (patience and log_every are read only when
\* early stopping and logging are on)
TrainerArgs ==
    {a \in [fn : Trainers, do_early_stopping : BOOLEAN, patience : 1..MaxPatience,
            epochs : 0..MaxEpochs, log_fn : BOOLEAN, log_every : 1..MaxLogEvery,
            scheduler : BOOLEAN, n_train : {0, 1}, n_val : {0, 1}] :
        /\ a.fn # "train_unet_with_scheduler" => ~a.scheduler
        /\ ~a.do_early_stopping => a.patience = 1
        /\ ~a.log_fn => a.log_every = 1}

InitTrain ==
    /\ model \in Models
    /\ ev = EvIdle
    /\ calls = <<>>
    /\ env = Env0
    /\ \E a \in TrainerArgs :
          /\ a.fn # "train_unet_with_scheduler" => ~a.scheduler
          /\ tr = a @@ TrainerLocals
          /\ es = TrainerPolicy(a.fn, a.do_early_stopping, a.patience)

NextTrain ==
    \/ TrainEpochHead
    \/ TrainBatch
    \/ TrainEpochMean
    \/ TrainRaise
    \/ EvaluateBatch(PlainTrainerBatches)
    \/ EvaluateUnetBatch(UnetValBatches)
    \/ EvaluateReturn
    \/ EvaluateRaise
    \/ TrainEvalRaised
    \/ TrainAfterEval

SpecTrain == InitTrain /\ [][NextTrain]_vars

\* SpecBatches: one run of a trainer of one to three epochs over a training
\* loader of 0..MaxBatches batches, with patience 1 and logging at every epoch
\* when they are on
BatchesArgs ==
    {a \in [fn : Trainers, do_early_stopping : BOOLEAN, patience : {1},
            epochs : {1, 2, 3}, log_fn : BOOLEAN, log_every : {1},
            scheduler : BOOLEAN, n_train : 0..MaxBatches, n_val : {0, 1}] :
        a.fn # "train_unet_with_scheduler" => ~a.scheduler}

InitBatches ==
    /\ model \in Models
    /\ ev = EvIdle
    /\ calls = <<>>
    /\ env = Env0
    /\ \E a \in BatchesArgs :
          /\ tr = a @@ TrainerLocals
          /\ es = TrainerPolicy(a.fn, a.do_early_stopping, a.patience)

SpecBatches == InitBatches /\ [][NextTrain]_vars

----------------------------------------------------------------------------
(* Claims about evaluate_unet (SpecEval) *)

RECURSIVE AllIntersection(_)
\* sum over the batches of s of (predictions * y).sum()
AllIntersection(s) ==
    IF s = <<>> THEN 0
    ELSE SumProduct(Head(s).pred, Head(s).y) + AllIntersection(Tail(s))

RECURSIVE AllDenom(_)
\* sum over the batches of s of (predictions + y).sum()
AllDenom(s) ==
    IF s = <<>> THEN 0
    ELSE SumPlus(Head(s).pred, Head(s).y) + AllDenom(Tail(s))

RECURSIVE AllCorrect(_)
\* sum over the batches of s of the correct pixels
AllCorrect(s) ==
    IF s = <<>> THEN 0
    ELSE CountEqual(Head(s).pred, Head(s).y) + AllCorrect(Tail(s))

\* evaluate_unet has returned
UnetReturned == ev.pc = "done" /\ ev.fn = "evaluate_unet"

\* C1: the Dice value returned by evaluate_unet is 2 * (sum over all batches of
\* the intersection) / ((sum over all batches of the denominator) + eps).
C1_DiceOverAllBatches ==
    UnetReturned =>
        ev.ret.dice = DiceQuot(2 * AllIntersection(ev.seen), AllDenom(ev.seen))

\* C2: the accuracy returned by evaluate_unet is (sum over all batches of the
\* correct pixels) / (sum over all batches of the pixels).
C2_AccuracyOverAllBatches ==
    UnetReturned =>
        ev.ret.acc = Quot(AllCorrect(ev.seen), NPix * Len(ev.seen))

\* C10: when the prediction equals the target at every pixel of every batch,
\* the Dice value returned by evaluate_unet is 1.0.
C10_PerfectDiceIsOne ==
    (UnetReturned /\ \A k \in 1..Len(ev.seen) : ev.seen[k].pred = ev.seen[k].y)
        => ev.ret.dice = <<1, 1>>

----------------------------------------------------------------------------
(* Claims about the policies (SpecPolicy) *)

\* s is a non-empty prefix of t
IsPrefix(s, t) == Len(s) >= 1 /\ Len(s) <= Len(t) /\ s = SubSeq(t, 1, Len(s))

LossRun == <<Num(5), Num(4), Num(3), Num(3), Num(3)>>

DiceRun == <<<<1, 10>>, <<3, 10>>, <<3, 10>>, <<3, 10>>>>

\* C3 as stated: with patience 2 and the losses 5, 4, 3, 3, 3 the flag of
\* EarlyStopping is false after calls 1 to 4 and true after the 5th call.
C3_StopsAtFifthCall ==
    (es.cls = "EarlyStopping" /\ es.patience = 2 /\ IsPrefix(calls, LossRun))
        => (es.early_stop <=> Len(calls) = 5)

\* C3 amended: a loss equal to the best one counts as an improvement, so with
\* patience 2 and the losses 5, 4, 3, 3, 3 the flag of EarlyStopping is false
\* after each of the 5 calls, and from the 3rd call on the best score is 3 and
\* the counter 0.
C3_EqualLossImproves ==
    (es.cls = "EarlyStopping" /\ es.patience = 2 /\ IsPrefix(calls, LossRun))
        => /\ ~es.early_stop
           /\ es.counter = 0
           /\ es.best_score = calls[Len(calls)]

C3_Witness ==
    es.cls = "EarlyStopping" /\ es.patience = 2 /\ calls = LossRun

\* C4 as stated: with patience 2 and the Dice values 0.1, 0.3, 0.3, 0.3 the
\* flag of EarlyStoppingForUnet is false after calls 1 to 3 and set after the
\* 4th call.
C4_StopsAtFourthCall ==
    (es.cls = "EarlyStoppingForUnet" /\ es.patience = 2 /\ IsPrefix(calls, DiceRun))
        => (es.early_stop <=> Len(calls) = 4)

\* C4 amended: a Dice value equal to the best one counts as an improvement, so
\* with patience 2 and the Dice values 0.1, 0.3, 0.3, 0.3 the flag of
\* EarlyStoppingForUnet is false after each of the 4 calls, and after each call
\* the counter is 0 and the best score is the score of that call.
C4_EqualDiceImproves ==
    (es.cls = "EarlyStoppingForUnet" /\ es.patience = 2 /\ IsPrefix(calls, DiceRun))
        => /\ ~es.early_stop
           /\ es.counter = 0
           /\ es.best_score = calls[Len(calls)]

C4_Witness ==
    es.cls = "EarlyStoppingForUnet" /\ es.patience = 2 /\ calls = DiceRun

\* the first call counted as an improvement
FirstCallImproved ==
    es.best_score = calls[1] /\ es.counter = 0 /\ ~es.early_stop

\* C5 as stated: for both classes, every first score (negative Dice values
\* included) and every patience >= 1, after the first call on a fresh object
\* best_score is that score, counter is 0 and early_stop is false.
C5_FirstCallImproves == Len(calls) = 1 => FirstCallImproved

\* C5 amended: the same for every first score of EarlyStopping and for every
\* first score >= 0 of EarlyStoppingForUnet (a first Dice value below the
\* initial best score 0 counts as a non-improvement).
C5_FirstCallImprovesFromZero ==
    (Len(calls) = 1 /\ (es.cls = "EarlyStoppingForUnet" => ~Less(calls[1], <<0, 1>>)))
        => FirstCallImproved

C5_Witness ==
    /\ Len(calls) = 1 /\ es.cls = "EarlyStoppingForUnet"
    /\ calls[1] = <<1, 10>> /\ es.patience = 1 /\ es.best_score = <<1, 10>>

\* the score of the call a step makes fails to improve on the best score
FailsToImprove(s) ==
    IF es.cls = "EarlyStopping" THEN Greater(s, es.best_score) ELSE Less(s, es.best_score)

C6_Step ==
    calls' # calls =>
        LET s == calls'[Len(calls')] IN
        /\ es'.patience = es.patience /\ es'.cls = es.cls
        /\ IF FailsToImprove(s)
           THEN /\ es'.counter = es.counter + 1
                /\ es'.best_score = es.best_score
                /\ es'.early_stop = (es.early_stop \/ es'.counter >= es.patience)
           ELSE /\ es'.best_score = s
                /\ es'.counter = 0
                /\ es'.early_stop = es.early_stop

\* C6: a call with score s that fails to improve (loss: s > best_score, Dice:
\* s < best_score) adds 1 to counter, keeps best_score and sets early_stop when
\* the new counter >= patience; any other call makes s the best score, resets
\* counter to 0 and leaves early_stop as it was.
C6_Transition == [][C6_Step]_vars

C6_Witness ==
    /\ es.cls = "EarlyStoppingForUnet" /\ es.patience = 2
    /\ es.early_stop /\ es.counter = 0 /\ Len(calls) >= 3

\* C7: once early_stop is true it stays true after every further call.
C7_StoppedIsTerminal == [][es.early_stop => es'.early_stop]_vars

C7_Witness ==
    /\ es.cls = "EarlyStopping" /\ es.early_stop
    /\ es.counter = 0 /\ es.best_score = calls[Len(calls)]

----------------------------------------------------------------------------
(* Claims about the trainers (SpecTrain) *)

\* the histories a trainer returns: train and validation losses, and the Dice
\* values in the segmentation trainers
Returned(t) ==
    IF IsUnet(t.fn)
    THEN <<t.epoch_train_errors, t.epoch_val_errors, t.epoch_dice_values>>
    ELSE <<t.epoch_train_errors, t.epoch_val_errors>>

\* every returned history has length n
AllOfLength(t, n) == \A k \in DOMAIN Returned(t) : Len(Returned(t)[k]) = n

\* the trainer has returned; it was stopped by the policy when the flag is set
\* (the loop variable epoch is then the index of the epoch of the stop)
C8_OnReturn ==
    tr.pc = "returned" =>
        IF tr.do_early_stopping /\ es.early_stop
        THEN AllOfLength(tr, tr.epoch + 1)
        ELSE AllOfLength(tr, tr.epochs)

\* at the top of the epoch loop every history holds one entry per completed epoch
C8_PerEpoch == tr.pc = "head" => AllOfLength(tr, tr.epoch)

\* s is t, or t with one entry appended
GrowsByAtMostOne(s, t) ==
    /\ Len(t) \in {Len(s), Len(s) + 1}
    /\ SubSeq(t, 1, Len(s)) = s

C8_Step ==
    /\ \A k \in DOMAIN Returned(tr) : GrowsByAtMostOne(Returned(tr)[k], Returned(tr')[k])
    /\ (tr.pc = "head" /\ tr'.pc = "batches") =>
          \A k \in DOMAIN Returned(tr) : Returned(tr')[k] = Returned(tr)[k]

\* C8: for every trainer, every epochs >= 0 and every sequence of validation
\* scores the returned histories have one length: epochs when the policy did
\* not stop the run, stop_epoch + 1 when it did; each history gains exactly one
\* entry per completed epoch and never loses one.
C8_HistoryLengths == [](C8_OnReturn /\ C8_PerEpoch) /\ [][C8_Step]_vars

C8_Witness ==
    /\ tr.pc = "returned" /\ tr.fn = "train_unet" /\ tr.epochs = 3
    /\ tr.do_early_stopping /\ es.early_stop /\ tr.epoch = 1
    /\ AllOfLength(tr, 2)

\* d[2] < d[1], d[3] < d[2], ...
StrictlyDecreasing(d) == \A k \in 1..(Len(d) - 1) : Less(d[k + 1], d[k])

\* C9: in train_unet and train_unet_with_scheduler with early stopping,
\* patience 1, epochs >= 2 and validation Dice values that strictly decrease
\* after epoch 1, the run has returned once the second Dice value is known: the
\* three histories have length 2 and no batch of a third epoch was processed.
C9_HaltsAtEpochTwo ==
    (/\ IsUnet(tr.fn) /\ tr.pc # "idle"
     /\ tr.do_early_stopping /\ tr.patience = 1 /\ tr.epochs >= 2
     /\ Len(tr.epoch_dice_values) >= 2
     /\ StrictlyDecreasing(tr.epoch_dice_values))
        => /\ tr.pc = "returned"
           /\ AllOfLength(tr, 2)
           /\ tr.epoch = 1
           /\ env.steps = 2 * tr.n_train

C9_Witness ==
    /\ tr.fn = "train_unet_with_scheduler" /\ tr.pc = "returned"
    /\ tr.do_early_stopping /\ tr.patience = 1 /\ tr.epochs = 3
    /\ Len(tr.epoch_dice_values) = 2
    /\ Less(tr.epoch_dice_values[2], tr.epoch_dice_values[1])
    /\ env.steps = 2

----------------------------------------------------------------------------
(* Further claims about the trainers (SpecTrain, SpecBatches) *)

\* the step is one of an evaluation pass: its entry, a batch, its return or
\* its exception
EvaluatorStep == ev' # ev /\ ev'.pc # "idle"

C11_Step ==
    /\ EvaluatorStep =>
          /\ model'.params = model.params
          /\ env'.steps = env.steps
          /\ env'.zero_grads = env.zero_grads
          /\ env'.backwards = env.backwards
    /\ model'.params # model.params =>
          /\ tr.pc = "batches" /\ tr'.b = tr.b + 1
          /\ env'.steps = env.steps + 1
          /\ model'.params = model.params + 1

\* C11: no step of an evaluation pass (evaluate, evaluate_unet) changes the
\* parameters of the model or makes an optimizer step, a gradient reset or a
\* backward pass; in a trainer the parameters change only in a training batch,
\* by its one optimizer step.
C11_EvaluatorKeepsParameters == [][C11_Step]_vars

C11_Witness ==
    /\ ev.pc = "done" /\ ev.fn = "evaluate_unet" /\ tr.pc = "eval"
    /\ tr.epoch = 1 /\ model.params = 2 /\ env.steps = 2

\* the larger of two scores
Max2(a, b) == IF Less(a, b) THEN b ELSE a

\* the largest of 0 and the first k - 1 Dice values d[1], ..., d[k-1]
RECURSIVE BestDiceBefore(_, _)
BestDiceBefore(d, k) ==
    IF k <= 1 THEN <<0, 1>> ELSE Max2(BestDiceBefore(d, k - 1), d[k - 1])

\* the length of the run of Dice values ending at d[k] that are each below
\* the largest value before them
RECURSIVE DiceMisses(_, _)
DiceMisses(d, k) ==
    IF k = 0 THEN 0
    ELSE IF Less(d[k], BestDiceBefore(d, k)) THEN DiceMisses(d, k - 1) + 1
    ELSE 0

\* the stop decision as a function of the Dice history and the patience alone
DiceDecision(d, p) == Len(d) >= 1 /\ DiceMisses(d, Len(d)) >= p

\* the trainer left its epoch loop by the break
StoppedEarly(t) == t.pc = "returned" /\ t.epoch < t.epochs

Count(trace, x) == Cardinality({i \in DOMAIN trace : trace[i] = x})

\* the policy is STOPPED: the trainer has returned, the epoch of the stop has
\* all its training batches, its evaluation and its appends, and nothing of a
\* later epoch was done
C13_Stopped ==
    (tr.do_early_stopping /\ es.early_stop) =>
        /\ tr.pc = "returned" /\ ev.pc = "idle"
        /\ tr.b = tr.n_train
        /\ AllOfLength(tr, tr.epoch + 1)
        /\ env.steps = (tr.epoch + 1) * tr.n_train
        /\ Count(env.trace, "forward") = (tr.epoch + 1) * tr.n_train
        /\ Count(env.trace, "evaluate") = tr.epoch + 1

\* the transition to STOPPED is made by the rest of the epoch, after the last
\* training batch and the evaluation; a STOPPED trainer does nothing more
C13_Step ==
    /\ (tr.do_early_stopping /\ ~es.early_stop /\ es'.early_stop) =>
          /\ tr.pc = "eval" /\ ev.pc = "done" /\ tr.b = tr.n_train
          /\ tr'.pc = "returned"
          /\ AllOfLength(tr', tr.epoch + 1)
          /\ env'.steps = env.steps
    /\ (tr.do_early_stopping /\ es.early_stop) =>
          /\ env'.steps = env.steps /\ env'.trace = env.trace
          /\ tr' = tr /\ ev' = ev /\ model' = model

\* C13: the policy becomes STOPPED only at the end of an epoch, whose training
\* batches, evaluation and history appends are all done; after that no training
\* batch, optimizer step or evaluation happens.
C13_StopsAtEpochBoundary == []C13_Stopped /\ [][C13_Step]_vars

C13_Witness ==
    /\ tr.do_early_stopping /\ es.early_stop /\ tr.pc = "returned"
    /\ tr.epochs = 3 /\ tr.epoch = 1 /\ tr.n_train = 2 /\ env.steps = 4

\* every batch of the epoch had the loss c
UniformLoss(losses, c) == \A i \in DOMAIN losses : losses[i] = c

C14_Step ==
    (tr.pc = "batches" /\ tr'.pc = "eval") =>
        /\ Len(env.batch_losses) = tr.n_train /\ tr.n_train >= 1
        /\ \A c \in TrainerLosses :
              UniformLoss(env.batch_losses, c) =>
                  tr'.epoch_train_errors = Append(tr.epoch_train_errors, Num(c))

Rank(x) ==
    CASE x = "train" -> 0
      [] x \in {"zero_grad", "forward", "backward", "step", "notify"} -> 1
      [] x = "append_train" -> 2
      [] x = "evaluate" -> 3
      [] x = "append_val" -> 4
      [] x = "policy" -> 5
      [] x = "log" -> 6
      [] x = "check" -> 7

\* step y may follow step x: a later step of the same epoch, a further step
\* of the batch loop, or the first step of the next epoch after the stop check
MayFollow(x, y) ==
    \/ Rank(y) > Rank(x)
    \/ Rank(y) = 1 /\ Rank(x) = 1
    \/ x = "check" /\ y = "train"

\* the steps taken so far are in the order of the claim, and the evaluator of
\* an epoch starts after all the training batches of the epoch
C15_Ordered ==
    tr.pc # "idle" =>
        /\ \A i \in 1..(Len(env.trace) - 1) : MayFollow(env.trace[i], env.trace[i + 1])
        /\ Len(env.trace) >= 1 => env.trace[1] = "train"
        /\ Count(env.trace, "forward") >= Count(env.trace, "evaluate") * tr.n_train
        /\ Count(env.trace, "forward") <= Count(env.trace, "train") * tr.n_train
        /\ tr.pc \in {"head", "returned"} =>
              /\ Count(env.trace, "evaluate") = Count(env.trace, "train")
              /\ Count(env.trace, "append_val") = Count(env.trace, "train")
              /\ Count(env.trace, "check") = Count(env.trace, "train")
              /\ Count(env.trace, "policy") =
                     IF tr.do_early_stopping THEN Count(env.trace, "train") ELSE 0

\* the epoch of the stop is logged when its index satisfies the interval
C15_StopEpochLogged ==
    (StoppedEarly(tr) /\ tr.log_fn /\ (tr.epoch + 1) % tr.log_every = 0) =>
        /\ Len(env.logs) >= 1
        /\ env.logs[Len(env.logs)].epoch = tr.epoch
        /\ SubSeq(env.trace, Len(env.trace) - 2, Len(env.trace)) = <<"policy", "log", "check">>

\* C15: in every epoch of every trainer the steps are taken in the order
\* training batches, evaluator, append of the validation results, policy call
\* (if enabled), logging callback (if due), stop check; the epoch in which the
\* policy stops the run is logged when the interval says so.
C15_EpochOrder == C15_Ordered /\ C15_StopEpochLogged

C15_Witness ==
    /\ StoppedEarly(tr) /\ tr.log_fn /\ tr.log_every = 2 /\ tr.epoch = 1
    /\ tr.n_train = 1
    /\ Len(env.logs) = 1 /\ env.logs[1].epoch = 1
    /\ SubSeq(env.trace, Len(env.trace) - 4, Len(env.trace))
           = <<"evaluate", "append_val", "policy", "log", "check">>

\* the epochs the logging callback was called for
LoggedEpochs == {env.logs[i].epoch : i \in DOMAIN env.logs}

\* C16: over the k completed epochs of a run the logging callback was called
\* for epoch e exactly when log_fn is given and (e + 1) % log_every = 0, once,
\* with the train loss and the validation loss of that epoch; it was called
\* k \div log_every times, and never without log_fn.
C16_LoggingInterval ==
    tr.pc # "idle" =>
        LET k == Len(tr.epoch_val_errors) IN
        /\ LoggedEpochs \subseteq 0..(k - 1)
        /\ \A e \in 0..(k - 1) :
              (e \in LoggedEpochs) <=> (tr.log_fn /\ (e + 1) % tr.log_every = 0)
        /\ Cardinality(LoggedEpochs) = Len(env.logs)
        /\ \A i \in DOMAIN env.logs :
              /\ env.logs[i].train_loss = tr.epoch_train_errors[env.logs[i].epoch + 1]
              /\ env.logs[i].val_loss = tr.epoch_val_errors[env.logs[i].epoch + 1]
        /\ Len(env.logs) = IF tr.log_fn THEN k \div tr.log_every ELSE 0

C16_Witness ==
    /\ tr.pc = "returned" /\ tr.log_fn /\ tr.log_every = 2
    /\ Len(tr.epoch_val_errors) = 3
    /\ Len(env.logs) = 1 /\ env.logs[1].epoch = 1

\* train_unet_with_scheduler was given a scheduler
WithScheduler(t) == t.fn = "train_unet_with_scheduler" /\ t.scheduler

\* the last n entries of s
Suffix(s, n) == SubSeq(s, Len(s) - n + 1, Len(s))

\* with a scheduler: one notification per optimizer step, made right after
\* the step and so before the next forward pass, with the loss of the batch;
\* without one: no notification
C17_Notified ==
    tr.pc # "idle" =>
        IF WithScheduler(tr)
        THEN /\ Len(env.notified) = env.steps
             /\ Count(env.trace, "notify") = Count(env.trace, "step")
             /\ \A i \in DOMAIN env.trace :
                   /\ env.trace[i] = "step" =>
                         i < Len(env.trace) /\ env.trace[i + 1] = "notify"
                   /\ env.trace[i] = "notify" => i > 1 /\ env.trace[i - 1] = "step"
             /\ Len(env.batch_losses) <= Len(env.notified)
             /\ Suffix(env.notified, Len(env.batch_losses)) = env.batch_losses
        ELSE /\ env.notified = <<>>
             /\ Count(env.trace, "notify") = 0

\* the same trainer state under the name of the other segmentation trainer
AsUnet(t) == [t EXCEPT !.fn = "train_unet"]

AsWithScheduler(t) == [t EXCEPT !.fn = "train_unet_with_scheduler"]

\* a step of train_unet_with_scheduler without a scheduler is the step
\* train_unet makes from the same state
C17_Step ==
    (tr.fn = "train_unet_with_scheduler" /\ ~tr.scheduler /\ tr' # tr) =>
        CASE tr.pc = "head" ->
                 /\ tr' \in {[tr EXCEPT !.pc = "returned"],
                             [tr EXCEPT !.pc = "batches", !.b = 0, !.train_loss = <<0, 1>>,
                                        !.train_correct_num = 0, !.train_total = 0]}
          [] tr.pc = "batches" /\ tr'.pc = "batches" ->
                 \E b \in UnetTrainBatches :
                    /\ tr' = AsWithScheduler(TrainBatchLocals(AsUnet(tr), b))
                    /\ env' = TrainBatchEnv(AsUnet(tr), env, b)
          [] tr.pc = "batches" /\ tr'.pc = "eval" ->
                 /\ tr' = AsWithScheduler(TrainMeanLocals(AsUnet(tr)))
                 /\ ev'.fn = "evaluate_unet"
          [] tr.pc = "eval" /\ tr'.pc \in {"head", "returned"} ->
                 /\ es' = PolicyAfterEpoch(AsUnet(tr), es, ev.ret)
                 /\ tr' = AsWithScheduler(TrainAfterLocals(AsUnet(tr), es', ev.ret))
                 /\ env' = TrainAfterEnv(AsUnet(tr), env, ev.ret)
          [] OTHER -> tr'.pc = "raised"

\* C17: train_unet_with_scheduler with a scheduler notifies it once after
\* each optimizer step, before the next forward pass, with the loss of the
\* batch, so notifications and optimizer steps are equal in number; without a
\* scheduler there is no notification and every step is the one train_unet makes.
C17_SchedulerNotified == []C17_Notified /\ [][C17_Step]_vars

C17_Witness ==
    /\ WithScheduler(tr) /\ tr.epoch = 1 /\ tr.pc = "eval"
    /\ env.steps = 4 /\ env.notified = <<1, 2, 2, 1>>

\* the policy object self after the calls with scores[1], scores[2], ...
RECURSIVE Replay(_, _)
Replay(self, scores) ==
    IF scores = <<>> THEN self
    ELSE PolicyCall(Replay(self, SubSeq(scores, 1, Len(scores) - 1)),
                    scores[Len(scores)])

\* the history of the validation score the trainer's policy is called with
ScoreHistory(t) == IF t.fn = "train" THEN t.epoch_val_errors ELSE t.epoch_dice_values

\* C18: with early stopping the policy has been called once per completed
\* epoch with the epoch's validation score (validation loss in train, Dice in
\* the segmentation trainers) and is the one object built before the loop,
\* never reset; without early stopping no policy is called and a trainer that
\* returns has run exactly `epochs` epochs.
C18_PolicyCalls ==
    tr.pc # "idle" =>
        IF tr.do_early_stopping
        THEN /\ calls = ScoreHistory(tr)
             /\ Count(env.trace, "policy") = Len(tr.epoch_val_errors)
             /\ es = Replay(IF tr.fn = "train" THEN EarlyStoppingInit(tr.patience)
                            ELSE EarlyStoppingForUnetInit(tr.patience), calls)
        ELSE /\ calls = <<>>
             /\ Count(env.trace, "policy") = 0
             /\ es = NoPolicy
             /\ ~StoppedEarly(tr)
             /\ tr.pc = "returned" =>
                   /\ AllOfLength(tr, tr.epochs)
                   /\ Count(env.trace, "train") = tr.epochs

\* a policy with patience 2 that counted one miss and went on to an
\* improvement in the third epoch
C18_Witness ==
    /\ tr.do_early_stopping /\ tr.patience = 2 /\ tr.pc = "returned"
    /\ Len(calls) = 3 /\ calls = ScoreHistory(tr)
    /\ Less(calls[2], calls[1]) /\ Less(calls[2], calls[3])
    /\ ~es.early_stop

----------------------------------------------------------------------------
(* Further claims about the policy objects (SpecPolicy) *)

\* the scores of a history
Range(s) == {s[i] : i \in DOMAIN s}

\* the smallest and the largest score of a non-empty history
MinOf(s) == CHOOSE x \in Range(s) : \A y \in Range(s) : ~Less(y, x)

MaxOf(s) == CHOOSE x \in Range(s) : \A y \in Range(s) : ~Less(x, y)

Min2(a, b) == IF Less(b, a) THEN b ELSE a

\* the smallest of the first k - 1 losses d[1], ..., d[k-1] (inf when k = 1)
RECURSIVE BestLossBefore(_, _)
BestLossBefore(d, k) ==
    IF k <= 1 THEN Inf ELSE Min2(BestLossBefore(d, k - 1), d[k - 1])

\* the length of the run of losses ending at d[k] that are each above the
\* smallest value before them
RECURSIVE LossMisses(_, _)
LossMisses(d, k) ==
    IF k = 0 THEN 0
    ELSE IF Greater(d[k], BestLossBefore(d, k)) THEN LossMisses(d, k - 1) + 1
    ELSE 0

\* the number of consecutive non-improving calls ending with call k
Misses(cls, d, k) == IF cls = "EarlyStopping" THEN LossMisses(d, k) ELSE DiceMisses(d, k)

\* C20: counter is never negative and is below patience while early_stop is
\* false; it is the number of consecutive non-improving calls since the last
\* improving one, and early_stop is true exactly from the first call on that
\* completes `patience` of them.
C20_CounterAndPatience ==
    /\ es.counter >= 0
    /\ ~es.early_stop => es.counter < es.patience
    /\ es.counter = Misses(es.cls, calls, Len(calls))
    /\ es.early_stop = (\E k \in 1..Len(calls) : Misses(es.cls, calls, k) >= es.patience)

C20_Witness ==
    /\ es.cls = "EarlyStopping" /\ es.patience = 2
    /\ calls = <<Num(3), Num(4), Num(3), Num(4), Num(5)>>
    /\ es.early_stop /\ es.counter = 2

----------------------------------------------------------------------------
(* The mode of the model in the trainers (SpecTrain) *)

\* the step is a training batch of a trainer
TrainingBatchStep == tr.pc = "batches" /\ tr'.pc = "batches" /\ tr'.b = tr.b + 1

\* the step is a validation batch of the evaluator a trainer called
ValidationBatchStep ==
    tr.pc = "eval" /\ ev.pc = "loop" /\ Len(ev'.seen) = Len(ev.seen) + 1

C21_Step ==
    /\ TrainingBatchStep => model.mode = "train" /\ model'.mode = "train"
    /\ ValidationBatchStep => model.mode = "eval" /\ model'.mode = "eval"

\* a trainer that returned from a run of at least one epoch left the model in
\* inference mode
C21_OnReturn ==
    (tr.pc = "returned" /\ tr.epochs >= 1) => model.mode = "eval"

\* C21: in every epoch of every trainer each training batch runs with the
\* model in training mode and each validation batch with the model in
\* inference mode, the evaluator having left it in inference mode in the epoch
\* before; after a trainer returns from a run of at least one epoch the model
\* is in inference mode.
C21_ModelMode == []C21_OnReturn /\ [][C21_Step]_vars

\* a training batch of the second epoch was processed in training mode, the
\* evaluator of the first epoch having returned
C21_Witness ==
    /\ tr.pc = "batches" /\ tr.epoch = 1 /\ tr.b = 1
    /\ Len(tr.epoch_val_errors) = 1 /\ Count(env.trace, "evaluate") = 1
    /\ model.mode = "train"

====
